---- MODULE Spec2Model ----
(***************************************************************************)
(* wxBanker ledger core (bankobjects.py): BankModel, AccountList, Account, *)
(* Transaction, with the synchronous publish/subscribe channel and the     *)
(* persistent Store they call.                                             *)
(*                                                                         *)
(* Amounts are whole numbers of hundredths, held exactly.  Every handler   *)
(* is one atomic action (delivery is synchronous and single threaded);     *)
(* the Store calls and the publications it makes are recorded, in order,   *)
(* in trace, each with a snapshot of what a subscriber would see.          *)
(***************************************************************************)
EXTENDS Integers, Sequences, FiniteSets, TLC

\* ---- bounds -------------------------------------------------------------
MaxAdds == 1
MaxDepth == 3
MaxPow == 8
MaxTx == 3
MaxMonths == 13

Names == {"a", "b"}
Amounts == {1, 2}
AddAmounts == {1}
Descriptions == {""}
Currencies == {0, 1}

VARIABLES accounts, heap, rows, nextRow, currency, adds, lastOp, trace, calc

\* the bank's part of the state
bank == <<accounts, heap, rows, nextRow, currency, adds, lastOp, trace>>

vars == <<accounts, heap, rows, nextRow, currency, adds, lastOp, trace, calc>>

\* ---- helpers ------------------------------------------------------------
RECURSIVE SumAmounts(_, _)
SumAmounts(h, s) ==
  IF s = <<>> THEN 0 ELSE h[Head(s)].Amount + SumAmounts(h, Tail(s))

RECURSIVE SumRows(_)
SumRows(s) ==
  IF s = <<>> THEN 0 ELSE Head(s).Amount + SumRows(Tail(s))

RECURSIVE SumBalances(_)
SumBalances(s) ==
  IF s = <<>> THEN 0 ELSE Head(s).Balance + SumBalances(Tail(s))

RECURSIVE Ascending(_)
Ascending(S) ==
  IF S = {} THEN <<>>
  ELSE LET m == CHOOSE x \in S : \A y \in S : x <= y
       IN <<m>> \o Ascending(S \ {m})

Range(s) == {s[i] : i \in 1..Len(s)}

RemoveAt(s, i) == SubSeq(s, 1, i - 1) \o SubSeq(s, i + 1, Len(s))

\* object identities: the object built by AddTransaction for row r, and the
\* object the Store builds for row r when the account's list is fetched
ObjNew(r) == 2 * r
ObjDb(r) == 2 * r + 1

\* ---- the publish/subscribe channel --------------------------------------
IsPrefix(p, t) == Len(p) <= Len(t) /\ SubSeq(t, 1, Len(p)) = p

\* a message reaches the listeners of its topic and of every parent topic
Delivers(subscribed, topic) == IsPrefix(subscribed, topic)

StoreCall(what, obj, arg) ==
  [kind |-> "store", topic |-> <<"Store", what>>, obj |-> obj, arg |-> arg,
   member |-> FALSE, bal |-> 0]

Publication(topic, obj, arg, member, bal) ==
  [kind |-> "pub", topic |-> topic, obj |-> obj, arg |-> arg,
   member |-> member, bal |-> bal]

Log(w, e) == [w EXCEPT !.trace = Append(@, e)]

\* ---- AccountList --------------------------------------------------------
\* a scan that stops one short of the end of the list
AccountIndexSkipsLast(accts, accountName) ==
  IF \E i \in 1..(Len(accts) - 1) : accts[i].Name = accountName
  THEN CHOOSE i \in 1..(Len(accts) - 1) :
         /\ accts[i].Name = accountName
         /\ \A j \in 1..(i - 1) : accts[j].Name # accountName
  ELSE 0

\* AccountList.AccountIndex: position of the first account so named, 0 for -1
AccountIndex(accts, accountName) ==
  IF \E i \in 1..Len(accts) : accts[i].Name = accountName
  THEN CHOOSE i \in 1..Len(accts) :
         /\ accts[i].Name = accountName
         /\ \A j \in 1..(i - 1) : accts[j].Name # accountName
  ELSE 0

\* AccountList.GetBalance
ListBalance(accts) == SumBalances(accts)

\* BankModel.GetBalance
GetBalance == ListBalance(accounts)

\* position of the account object with identity aid in the list (0: not in it)
PosOf(accts, aid) ==
  IF \E i \in 1..Len(accts) : accts[i].ID = aid
  THEN CHOOSE i \in 1..Len(accts) : accts[i].ID = aid
  ELSE 0

NameOf(accts, aid) == accts[PosOf(accts, aid)].Name

\* ---- strings ------------------------------------------------------------
\* a string is the sequence of its characters
DigitChars == <<"0", "1", "2", "3", "4", "5", "6", "7", "8", "9">>

IsDigit(c) == \E d \in 1..Len(DigitChars) : DigitChars[d] = c

DigitOf(c) == (CHOOSE d \in 1..Len(DigitChars) : DigitChars[d] = c) - 1

RECURSIVE Pow10(_)
Pow10(k) == IF k = 0 THEN 1 ELSE 10 * Pow10(k - 1)

\* '%i' % n, n >= 0
RECURSIVE NatStr(_)
NatStr(n) ==
  IF n < 10 THEN <<DigitChars[n + 1]>>
  ELSE NatStr(n \div 10) \o <<DigitChars[(n % 10) + 1]>>

\* int(s) of a string of digits
RECURSIVE NatOf(_)
NatOf(s) ==
  IF s = <<>> THEN 0 ELSE 10 * NatOf(SubSeq(s, 1, Len(s) - 1)) + DigitOf(s[Len(s)])

AllDigits(s) == \A k \in 1..Len(s) : IsDigit(s[k])

\* s.replace(old, new) for a one-character old
RECURSIVE Replace(_, _, _)
Replace(s, old, new) ==
  IF s = <<>> THEN <<>>
  ELSE (IF Head(s) = old THEN new ELSE <<Head(s)>>) \o Replace(Tail(s), old, new)

\* s.find(c): the 0-based position of the first c, -1 when there is none
Find(s, c) ==
  IF \E k \in 1..Len(s) : s[k] = c
  THEN (CHOOSE k \in 1..Len(s) : s[k] = c /\ \A j \in 1..(k - 1) : s[j] # c) - 1
  ELSE -1

\* s.strip()
RECURSIVE Strip(_)
Strip(s) ==
  IF s = <<>> THEN s
  ELSE IF Head(s) = " " THEN Strip(Tail(s))
  ELSE IF s[Len(s)] = " " THEN Strip(SubSeq(s, 1, Len(s) - 1))
  ELSE s

\* s.rjust(width)
RECURSIVE RJust(_, _)
RJust(s, width) == IF Len(s) >= width THEN s ELSE RJust(<<" ">> \o s, width)

\* s[from:], from 0-based
SliceFrom(s, from) == SubSeq(s, from + 1, Len(s))

HasSubstring(s, p) ==
  \E k \in 0..(Len(s) - Len(p)) : SubSeq(s, k + 1, k + Len(p)) = p

\* ---- dates --------------------------------------------------------------
\* s.split(sep) for a one-character sep
RECURSIVE Split(_, _)
Split(s, sep) ==
  LET k == Find(s, sep)
  IN IF k = -1 THEN <<s>>
     ELSE <<SubSeq(s, 1, k)>> \o Split(SliceFrom(s, k + 1), sep)

\* s.zfill(width)
RECURSIVE ZFill(_, _)
ZFill(s, width) == IF Len(s) >= width THEN s ELSE ZFill(<<"0">> \o s, width)

IsLeap(year) == year % 4 = 0 /\ (year % 100 # 0 \/ year % 400 = 0)

\* calendar.monthrange(year, month)[1]
DaysInMonth(year, month) ==
  IF month = 2 THEN (IF IsLeap(year) THEN 29 ELSE 28)
  ELSE IF month \in {4, 6, 9, 11} THEN 30 ELSE 31

MINYEAR == 1
MAXYEAR == 9999

\* datetime.date(year, month, day)
Date(year, month, day) ==
  IF /\ year \in MINYEAR..MAXYEAR
     /\ month \in 1..12
     /\ day \in 1..DaysInMonth(year, month)
  THEN [exc |-> "", year |-> year, month |-> month, day |-> day]
  ELSE [exc |-> "ValueError", year |-> 0, month |-> 0, day |-> 0]

\* str(date) of a datetime.date
DateStr(date) ==
  ZFill(NatStr(date.year), 4) \o <<"-">> \o ZFill(NatStr(date.month), 2)
    \o <<"-">> \o ZFill(NatStr(date.day), 2)

MAX_FUTURE_ABBR == 10

\* the year of an abbreviation, with < where the code has <=
AbbreviatedYearStrict(year, currentYear) ==
  LET currentAbr == currentYear % 100
      currentBase == currentYear \div 100
  IN IF year < currentAbr + MAX_FUTURE_ABBR
     THEN year + currentBase * 100
     ELSE year + (currentBase - 1) * 100

\* Transaction._MassageDate, lines 323-330: the year an abbreviation means
AbbreviatedYear(year, currentYear) ==
  LET currentAbr == currentYear % 100
      currentBase == currentYear \div 100
  IN IF year <= currentAbr + MAX_FUTURE_ABBR
     THEN year + currentBase * 100
     ELSE year + (currentBase - 1) * 100

\* Transaction._MassageDate of a string, in a year currentYear
MassageDateString(date, currentYear) ==
  LET parts == Split(Replace(date, "/", <<"-">>), "-")
      ints == [k \in 1..Len(parts) |-> Strip(parts[k])]
  IN IF Len(parts) # 3 \/ \E k \in 1..Len(ints) : ints[k] = <<>> \/ ~AllDigits(ints[k])
     THEN [exc |-> "ValueError", year |-> 0, month |-> 0, day |-> 0]
     ELSE LET year == NatOf(ints[1])
          IN Date(IF year < 100 THEN AbbreviatedYear(year, currentYear) ELSE year,
                  NatOf(ints[2]), NatOf(ints[3]))

\* ---- Store (persistence collaborator) -----------------------------------
\* Store.MakeTransaction: persists the transaction and assigns its id
StoreMakeTransaction(w, aid, t) ==
  LET r == w.nextRow
      row == [acct |-> aid, Date |-> w.heap[t].Date,
              Description |-> w.heap[t].Description, Amount |-> w.heap[t].Amount]
      w1 == [w EXCEPT !.rows = [x \in DOMAIN w.rows \cup {r} |->
                                  IF x = r THEN row ELSE w.rows[x]],
                      !.heap[t].ID = r,
                      !.nextRow = r + 1]
      held == IF PosOf(w.accounts, aid) = 0 THEN <<>>
              ELSE w.accounts[PosOf(w.accounts, aid)].Transactions
  IN Log(w1, [StoreCall("MakeTransaction", t, aid) EXCEPT !.member = t \in Range(held)])

\* Store.RemoveTransaction: deletes the row with the transaction's id
StoreRemoveTransaction(w, t) ==
  LET r == w.heap[t].ID
      w1 == [w EXCEPT !.rows = [x \in DOMAIN w.rows \ {r} |-> w.rows[x]]]
  IN Log(w1, StoreCall("RemoveTransaction", t, r))

\* Store.getTransactionsFrom: one fresh Transaction per row persisted for the
\* account, in id order
StoreGetTransactionsFrom(w, aid) ==
  LET mine == {r \in DOMAIN w.rows : w.rows[r].acct = aid}
      objs == {ObjDb(r) : r \in mine}
      h1 == [o \in DOMAIN w.heap \cup objs |->
               IF o \in objs
               THEN LET r == CHOOSE x \in mine : ObjDb(x) = o
                    IN [ID |-> r, Parent |-> aid, IsFrozen |-> FALSE,
                        Date |-> w.rows[r].Date,
                        Description |-> w.rows[r].Description,
                        Amount |-> w.rows[r].Amount]
               ELSE w.heap[o]]
      w1 == [w EXCEPT !.heap = h1, !.ret = Ascending(objs)]
  IN Log(w1, StoreCall("getTransactionsFrom", 0, aid))

\* ---- Transaction --------------------------------------------------------
\* Python's None
None == <<"None">>

\* the date argument left out
NoDate == None

\* datetime.date.today()
Today == Date(2009, 3, 10)

\* a _MassageDate that takes today for a date it cannot read
MassageDateLenient(date) ==
  LET d == IF date = None THEN Today ELSE MassageDateString(date, Today.year)
  IN IF d.exc = "" THEN d ELSE Today

\* Transaction._MassageDate
MassageDate(date) ==
  IF date = None THEN Today ELSE MassageDateString(date, Today.year)

\* a comparison that leaves the Parent out, as Transaction.equals does
CmpWithoutParent(accts, a, b) == TRUE

\* Account.__cmp__: accounts compare by Name
AccountCmpEq(accts, a, b) == NameOf(accts, a) = NameOf(accts, b)

\* Transaction.__cmp__ = 0: (Date, Amount, Description, Parent) compare equal
TransactionCmpEq(accts, h, t, u) ==
  /\ h[t].Date = h[u].Date
  /\ h[t].Amount = h[u].Amount
  /\ h[t].Description = h[u].Description
  /\ AccountCmpEq(accts, h[t].Parent, h[u].Parent)

\* `t in list`: some element is t or compares equal to t
Contains(accts, h, list, t) ==
  \E i \in 1..Len(list) : list[i] = t \/ TransactionCmpEq(accts, h, list[i], t)

\* list.remove(t): drops the first element that is t or compares equal to t
ListRemove(accts, h, list, t) ==
  LET i == CHOOSE k \in 1..Len(list) :
             /\ list[k] = t \/ TransactionCmpEq(accts, h, list[k], t)
             /\ \A j \in 1..(k - 1) :
                  ~(list[j] = t \/ TransactionCmpEq(accts, h, list[j], t))
  IN RemoveAt(list, i)

\* ---- Account ------------------------------------------------------------
AmountTopic == <<"transaction", "updated", "amount">>

\* the topic Account.__init__ subscribes onTransactionAmountChanged to
AccountSubscription == <<"transaction", "updated", "amount">>

\* Account.GetTransactions: the list is fetched from the Store on first use
GetTransactions(w, i) ==
  IF w.accounts[i].loaded THEN w
  ELSE LET w1 == StoreGetTransactionsFrom(w, w.accounts[i].ID)
       IN [w1 EXCEPT !.accounts[i].Transactions = w1.ret,
                     !.accounts[i].loaded = TRUE,
                     !.ret = <<>>]

\* Account.SetBalance
SetBalance(w, i, newBalance) ==
  LET w1 == [w EXCEPT !.accounts[i].Balance = newBalance]
  IN Log(w1, Publication(<<"account", "balance changed", w1.accounts[i].Name>>,
                         w1.accounts[i].ID, 0, TRUE, w1.accounts[i].Balance))

\* Account.onTransactionAmountChanged
onTransactionAmountChanged(w, i, t, difference) ==
  LET w1 == GetTransactions(w, i)
  IN IF Contains(w1.accounts, w1.heap, w1.accounts[i].Transactions, t)
     THEN SetBalance(w1, i, w1.accounts[i].Balance + difference)
     ELSE w1

\* delivery of transaction.updated.amount to every account, in list order
RECURSIVE NotifyAccounts(_, _, _, _)
NotifyAccounts(w, i, t, difference) ==
  IF i > Len(w.accounts) THEN w
  ELSE NotifyAccounts(onTransactionAmountChanged(w, i, t, difference),
                      i + 1, t, difference)

\* Transaction.SetAmount; the snapshot of the publication tells whether the
\* field reads the new amount at delivery
SetAmount(w, t, amount) ==
  LET difference == amount - w.heap[t].Amount
      w1 == [w EXCEPT !.heap[t].Amount = amount]
      own == PosOf(w1.accounts, w1.heap[t].Parent)
      w2 == Log(w1, Publication(AmountTopic, t, difference,
                                w1.heap[t].Amount = amount,
                                w1.accounts[own].Balance))
  IN IF w1.heap[t].IsFrozen THEN w1
     ELSE IF Delivers(AccountSubscription, AmountTopic)
     THEN NotifyAccounts(w2, 1, t, difference)
     ELSE w2

DateTopic == <<"transaction", "updated", "date">>

\* Transaction.SetDate once _MassageDate has returned d or raised
SetDateTo(w, t, d) ==
  IF d.exc # "" THEN [w EXCEPT !.exc = d.exc]
  ELSE LET w1 == [w EXCEPT !.heap[t].Date = d]
       IN IF w1.heap[t].IsFrozen THEN w1
          ELSE Log(w1, Publication(DateTopic, t, None, w1.heap[t].Date = d, 0))

\* Transaction.SetDate
SetDate(w, t, date) == SetDateTo(w, t, MassageDate(date))

DescriptionTopic == <<"transaction", "updated", "description">>

\* Transaction.SetDescription
SetDescription(w, t, description) ==
  LET w1 == [w EXCEPT !.heap[t].Description = description]
  IN IF w1.heap[t].IsFrozen THEN w1
     ELSE Log(w1, Publication(DescriptionTopic, t, None,
                              w1.heap[t].Description = description, 0))

\* the attributes of a Transaction before __init__ has set them
Blank(aid, frozen) ==
  [ID |-> 0, Parent |-> aid, IsFrozen |-> frozen, Date |-> Today,
   Description |-> <<>>, Amount |-> 0]

\* a new Transaction object t, its IsFrozen set
Allocate(w, t, aid, frozen) ==
  [w EXCEPT !.heap = [o \in DOMAIN w.heap \cup {t} |->
                        IF o = t THEN Blank(aid, frozen) ELSE w.heap[o]]]

\* Transaction.__init__ from self.Date = date on, w1 being the outcome of that
\* assignment: a date that is refused ends the construction and the object is
\* dropped, else Description and Amount are set and IsFrozen is cleared
Construct(w, w1, t, amount, description) ==
  IF w1.exc # "" THEN [w EXCEPT !.exc = w1.exc]
  ELSE [SetAmount(SetDescription(w1, t, description), t, amount)
          EXCEPT !.heap[t].IsFrozen = FALSE]

\* a Transaction.__init__ that does not freeze the object
NewTransactionThawed(w, t, aid, amount, description, date) ==
  Construct(w, SetDate(Allocate(w, t, aid, FALSE), t, date), t, amount, description)

\* Transaction.__init__: the three setters run while IsFrozen
NewTransaction(w, t, aid, amount, description, date) ==
  Construct(w, SetDate(Allocate(w, t, aid, TRUE), t, date), t, amount, description)

TransferTo(name, description) ==
  <<"Transfer to ", name>> \o
    (IF description = "" THEN <<>> ELSE <<" (", description, ")">>)

TransferFrom(name, description) ==
  <<"Transfer from ", name>> \o
    (IF description = "" THEN <<>> ELSE <<" (", description, ")">>)

\* Enter that announces the transaction before it is appended
EnterAnnouncesFirst(w1, aid, t) ==
  LET i == PosOf(w1.accounts, aid)
      w2 == StoreMakeTransaction(w1, aid, t)
      w3 == GetTransactions(w2, i)
      w4 == Log(w3, Publication(<<"transaction", "created", w3.accounts[i].Name>>,
                                t, 0, t \in Range(w3.accounts[i].Transactions),
                                w3.accounts[i].Balance))
      w5 == [w4 EXCEPT !.accounts[i].Transactions = Append(@, t)]
      w6 == SetBalance(w5, i, w5.accounts[i].Balance + w5.heap[t].Amount)
  IN IF w1.exc # "" THEN w1 ELSE [w6 EXCEPT !.ret = <<t>>]

\* Enter that moves the Balance before it announces the transaction
EnterBalanceFirst(w1, aid, t) ==
  LET i == PosOf(w1.accounts, aid)
      w2 == StoreMakeTransaction(w1, aid, t)
      w3 == GetTransactions(w2, i)
      w4 == [w3 EXCEPT !.accounts[i].Transactions = Append(@, t)]
      w5 == SetBalance(w4, i, w4.accounts[i].Balance + w4.heap[t].Amount)
      w6 == Log(w5, Publication(<<"transaction", "created", w5.accounts[i].Name>>,
                                t, 0, t \in Range(w5.accounts[i].Transactions),
                                w5.accounts[i].Balance))
  IN IF w1.exc # "" THEN w1 ELSE [w6 EXCEPT !.ret = <<t>>]

\* Account.AddTransaction from line 189 on, w1 being the outcome of the
\* construction of t at line 188: an exception raised there leaves the method
Enter(w1, aid, t) ==
  LET i == PosOf(w1.accounts, aid)
      w2 == StoreMakeTransaction(w1, aid, t)
      w3 == GetTransactions(w2, i)
      w4 == [w3 EXCEPT !.accounts[i].Transactions = Append(@, t)]
      w5 == Log(w4, Publication(<<"transaction", "created", w4.accounts[i].Name>>,
                                t, 0, t \in Range(w4.accounts[i].Transactions),
                                w4.accounts[i].Balance))
      w6 == SetBalance(w5, i, w5.accounts[i].Balance + w5.heap[t].Amount)
  IN IF w1.exc # "" THEN w1 ELSE [w6 EXCEPT !.ret = <<t>>]

\* Account.AddTransaction without a source (lines 188-207)
AddOne(w, aid, amount, description, date) ==
  Enter(NewTransaction(w, ObjNew(w.nextRow), aid, amount, description, date),
        aid, ObjNew(w.nextRow))

\* the source side entered with the amount not negated
MirrorAmountSameSign(amount) == amount

\* the amount entered in the source account of a transfer
MirrorAmount(amount) == -amount

\* AddTransaction that enters its own side before the source's
AddTransactionOwnSideFirst(w, aid, amount, description, date, source) ==
  IF source # 0
  THEN LET w1 == AddOne(w, aid, amount,
                        TransferFrom(NameOf(w.accounts, source), description), date)
           transaction == w1.ret[1]
           w2 == AddOne(w1, source, MirrorAmount(amount),
                        TransferTo(NameOf(w1.accounts, aid), description), date)
       IN IF w1.exc # "" THEN w1
          ELSE IF w2.exc # "" THEN w2
          ELSE [w2 EXCEPT !.ret = <<transaction, w2.ret[1]>>]
  ELSE AddOne(w, aid, amount, <<description>>, date)

\* Account.AddTransaction; source = 0 stands for None
AddTransaction(w, aid, amount, description, date, source) ==
  IF source # 0
  THEN LET w1 == AddOne(w, source, MirrorAmount(amount),
                        TransferTo(NameOf(w.accounts, aid), description), date)
           otherTrans == w1.ret[1]
           w2 == AddOne(w1, aid, amount,
                        TransferFrom(NameOf(w1.accounts, source), description), date)
       IN IF w1.exc # "" THEN w1
          ELSE IF w2.exc # "" THEN w2
          ELSE [w2 EXCEPT !.ret = <<w2.ret[1], otherTrans>>]
  ELSE AddOne(w, aid, amount, <<description>>, date)

\* Account.RemoveTransaction
RemoveTransaction(w, aid, t) ==
  LET i == PosOf(w.accounts, aid)
      w1 == GetTransactions(w, i)
  IN IF ~Contains(w1.accounts, w1.heap, w1.accounts[i].Transactions, t)
     THEN [w1 EXCEPT !.exc = "InvalidTransaction"]
     ELSE LET w2 == StoreRemoveTransaction(w1, t)
              w3 == Log(w2, Publication(
                          <<"transaction", "removed", w2.accounts[i].Name>>, t, 0,
                          t \in Range(w2.accounts[i].Transactions),
                          w2.accounts[i].Balance))
              w4 == [w3 EXCEPT !.accounts[i].Transactions =
                        ListRemove(w3.accounts, w3.heap, @, t)]
          IN SetBalance(w4, i, w4.accounts[i].Balance - w4.heap[t].Amount)

\* a rename that does not look for the name among the siblings
SetNameUnchecked(w, i, name) ==
  LET oldName == w.accounts[i].Name
      w1 == [w EXCEPT !.accounts[i].Name = name]
  IN Log(w1, Publication(<<"account", "renamed", oldName>>,
                         w1.accounts[i].ID, 0,
                         w1.accounts[i].Name = name, w1.accounts[i].Balance))

\* Account.SetName
SetName(w, i, name) ==
  IF AccountIndex(w.accounts, name) # 0
  THEN [w EXCEPT !.exc = "AccountAlreadyExists"]
  ELSE LET oldName == w.accounts[i].Name
           w1 == [w EXCEPT !.accounts[i].Name = name]
       IN Log(w1, Publication(<<"account", "renamed", oldName>>,
                              w1.accounts[i].ID, 0,
                              w1.accounts[i].Name = name, w1.accounts[i].Balance))

\* Account.__init__: an account with no list fetched yet; publishes
\* account.created.<name> (the account is not in any list at that moment)
NewAccount(w, aID, name, balance) ==
  LET account == [ID |-> aID, Name |-> name, Balance |-> balance,
                  loaded |-> FALSE, Transactions |-> <<>>]
  IN Log([w EXCEPT !.made = <<account>>],
         Publication(<<"account", "created", name>>, aID, 0,
                     PosOf(w.accounts, aID) # 0, balance))

\* Store.CreateAccount: assigns the identity and builds the Account
StoreCreateAccount(w, accountName) ==
  LET used == {w.accounts[i].ID : i \in 1..Len(w.accounts)}
      aID == CHOOSE n \in 1..(Len(w.accounts) + 1) : n \notin used
  IN NewAccount(Log(w, StoreCall("CreateAccount", aID, 0)), aID, accountName, 0)

\* Store.RemoveAccount: deletes the account and the rows persisted for it
StoreRemoveAccount(w, aid) ==
  Log([w EXCEPT !.rows = [x \in {r \in DOMAIN w.rows : w.rows[r].acct # aid} |->
                            w.rows[x]]],
      [StoreCall("RemoveAccount", aid, 0) EXCEPT !.member = PosOf(w.accounts, aid) # 0])

\* AccountList.Get
Get(w, accountName) ==
  LET index == AccountIndex(w.accounts, accountName)
  IN IF index = 0 THEN [w EXCEPT !.exc = "InvalidAccount"]
     ELSE [w EXCEPT !.ret = <<w.accounts[index].ID>>]

\* a Create that does not look for the name in the list
CreateUnchecked(w, accountName) ==
  LET w1 == StoreCreateAccount(w, accountName)
      account == w1.made[1]
  IN [w1 EXCEPT !.accounts = Append(@, account),
                !.made = <<>>,
                !.ret = <<account.ID>>]

\* AccountList.Create
Create(w, accountName) ==
  IF AccountIndex(w.accounts, accountName) > 0
  THEN [w EXCEPT !.exc = "AccountAlreadyExists"]
  ELSE LET w1 == StoreCreateAccount(w, accountName)
           account == w1.made[1]
       IN [w1 EXCEPT !.accounts = Append(@, account),
                     !.made = <<>>,
                     !.ret = <<account.ID>>]

\* a Remove without the check of the index: pop(-1) takes the last account
RemovePopsLast(w, accountName) ==
  LET found == AccountIndex(w.accounts, accountName)
      index == IF found = 0 THEN Len(w.accounts) ELSE found
  IN IF index = 0 THEN [w EXCEPT !.exc = "IndexError"]
     ELSE LET account == w.accounts[index]
              w1 == [w EXCEPT !.accounts = RemoveAt(@, index)]
              w2 == StoreRemoveAccount(w1, account.ID)
          IN Log(w2, Publication(<<"account", "removed", accountName>>,
                                 account.ID, 0,
                                 PosOf(w2.accounts, account.ID) # 0,
                                 account.Balance))

\* a Remove that asks the Store first and detaches the account afterwards
RemoveStoreFirst(w, accountName) ==
  LET index == AccountIndex(w.accounts, accountName)
  IN IF index = 0 THEN [w EXCEPT !.exc = "InvalidAccount"]
     ELSE LET account == w.accounts[index]
              w1 == StoreRemoveAccount(w, account.ID)
              w2 == [w1 EXCEPT !.accounts = RemoveAt(@, index)]
          IN Log(w2, Publication(<<"account", "removed", accountName>>,
                                 account.ID, 0,
                                 PosOf(w2.accounts, account.ID) # 0,
                                 account.Balance))

\* AccountList.Remove
Remove(w, accountName) ==
  LET index == AccountIndex(w.accounts, accountName)
  IN IF index = 0 THEN [w EXCEPT !.exc = "InvalidAccount"]
     ELSE LET account == w.accounts[index]
              w1 == [w EXCEPT !.accounts = RemoveAt(@, index)]
              w2 == StoreRemoveAccount(w1, account.ID)
          IN Log(w2, Publication(<<"account", "removed", accountName>>,
                                 account.ID, 0,
                                 PosOf(w2.accounts, account.ID) # 0,
                                 account.Balance))

\* ---- BankModel ----------------------------------------------------------
\* a subscription to the topic setCurrency itself publishes
SubscribedToOwnTopic == <<"currency_changed">>

\* the topic BankModel.__init__ subscribes onCurrencyChanged to
BankSubscription == <<"user", "currency_changed">>

\* the topic BankModel.setCurrency publishes
CurrencyTopic == <<"currency_changed">>

\* BankModel.setCurrency, with BankModel.onCurrencyChanged for the listener;
\* depth is the interpreter's remaining call depth
RECURSIVE setCurrency(_, _, _)
setCurrency(w, currencyIndex, depth) ==
  IF depth = 0 THEN [w EXCEPT !.exc = "RuntimeError"]
  ELSE LET w1 == Log([w EXCEPT !.currency = currencyIndex],
                     StoreCall("setCurrency", 0, currencyIndex))
           w2 == Log(w1, Publication(CurrencyTopic, 0, currencyIndex, TRUE, 0))
       IN IF Delivers(BankSubscription, CurrencyTopic)
          THEN setCurrency(w2, currencyIndex, depth - 1)
          ELSE w2

\* the topic on which other components announce the user's choice of currency
UserCurrencyTopic == <<"user", "currency_changed">>

\* a user.currency_changed message published by another component
UserCurrencyChanged(w, currencyIndex, depth) ==
  LET w1 == Log(w, Publication(UserCurrencyTopic, 0, currencyIndex, TRUE, 0))
  IN IF Delivers(BankSubscription, UserCurrencyTopic)
     THEN setCurrency(w1, currencyIndex, depth)
     ELSE w1

\* ---- numbers ------------------------------------------------------------
\* a float is held as the decimal it stands for: (-1)^neg * n / 10^scale;
\* neg with n = 0 is the negative zero
Decimal(neg, n, scale) == [neg |-> neg, n |-> n, scale |-> scale]

Signed(x) == IF x.neg THEN 0 - x.n ELSE x.n

\* a == b on floats (the two zeroes are equal)
FloatEq(a, b) ==
  LET m == IF a.scale < b.scale THEN a.scale ELSE b.scale
  IN Signed(a) * Pow10(b.scale - m) = Signed(b) * Pow10(a.scale - m)

\* '%.2f' % x: the sign, then x rounded to hundredths (an exact half goes to
\* the even hundredth)
Format2f(x) ==
  LET unit == IF x.scale > 2 THEN Pow10(x.scale - 2) ELSE 1
      n == IF x.scale < 2 THEN x.n * Pow10(2 - x.scale) ELSE x.n
      q == n \div unit
      r == n % unit
      h == IF 2 * r > unit \/ (2 * r = unit /\ q % 2 = 1) THEN q + 1 ELSE q
  IN (IF x.neg THEN <<"-">> ELSE <<>>) \o NatStr(h \div 100) \o <<".">>
       \o <<DigitChars[((h \div 10) % 10) + 1], DigitChars[(h % 10) + 1]>>

\* float(s) of a stripped string: [sign] digits [. digits] or [sign] . digits
ParseFloat(s0) ==
  LET s == Strip(s0)
      neg == s # <<>> /\ Head(s) = "-"
      body == IF s # <<>> /\ Head(s) \in {"-", "+"} THEN Tail(s) ELSE s
      dot == Find(body, ".")
      ip == IF dot = -1 THEN body ELSE SubSeq(body, 1, dot)
      fp == IF dot = -1 THEN <<>> ELSE SliceFrom(body, dot + 1)
  IN IF AllDigits(ip) /\ AllDigits(fp) /\ Len(ip) + Len(fp) > 0
     THEN [exc |-> "", neg |-> neg, n |-> NatOf(ip \o fp), scale |-> Len(fp)]
     ELSE [exc |-> "ValueError", neg |-> FALSE, n |-> 0, scale |-> 0]

\* ---- currencies ---------------------------------------------------------
BaseCurrency == [Symbol |-> <<>>, SepChar |-> ",", DecChar |-> "."]

USD == [Symbol |-> <<"$">>, SepChar |-> ",", DecChar |-> "."]

CurrencyClasses == {BaseCurrency, USD}

\* float2str that prints a negative zero as it comes
float2strKeepsNegZero(cur, number, just) ==
  LET s3 == Replace(Format2f(number), ".", <<cur.DecChar>>)
      s4 == IF Len(s3) > 6 + Find(s3, "-") + 1
            THEN SubSeq(s3, 1, Len(s3) - 6) \o <<cur.SepChar>>
                   \o SubSeq(s3, Len(s3) - 5, Len(s3))
            ELSE s3
  IN RJust(cur.Symbol \o s4, just)

\* BaseCurrency.float2str
float2str(cur, number, just) ==
  LET s1 == Format2f(number)
      s2 == IF s1 = <<"-", "0", ".", "0", "0">> THEN <<"0", ".", "0", "0">> ELSE s1
      s3 == Replace(s2, ".", <<cur.DecChar>>)
      s4 == IF Len(s3) > 6 + Find(s3, "-") + 1
            THEN SubSeq(s3, 1, Len(s3) - 6) \o <<cur.SepChar>>
                   \o SubSeq(s3, Len(s3) - 5, Len(s3))
            ELSE s3
      s5 == cur.Symbol \o s4
  IN RJust(s5, just)

\* str2float that leaves the separators in
str2floatKeepsSep(cur, mstr) ==
  ParseFloat(Replace(SliceFrom(Strip(mstr), Len(cur.Symbol)), cur.DecChar, <<".">>))

\* BaseCurrency.str2float
str2float(cur, mstr) ==
  LET s0 == Strip(mstr)
      s1 == SliceFrom(s0, Len(cur.Symbol))
      s2 == Replace(s1, cur.SepChar, <<>>)
      s3 == Replace(s2, cur.DecChar, <<".">>)
  IN ParseFloat(s3)

\* ---- MonthlyAnalyzer ----------------------------------------------------
\* a < b on datetime.date
DateLess(a, b) ==
  \/ a.year < b.year
  \/ a.year = b.year /\ a.month < b.month
  \/ a.year = b.year /\ a.month = b.month /\ a.day < b.day

\* Transaction.__cmp__ < 0 for transactions of one description and one parent
TransactionLess(t, u) ==
  \/ DateLess(t.Date, u.Date)
  \/ t.Date = u.Date /\ t.Amount < u.Amount

\* sorted(transactions)
RECURSIVE Sorted(_)
Sorted(s) ==
  IF s = <<>> THEN <<>>
  ELSE LET rest == Sorted(SubSeq(s, 1, Len(s) - 1))
           x == s[Len(s)]
           k == Cardinality({j \in 1..Len(rest) : ~TransactionLess(x, rest[j])})
       IN SubSeq(rest, 1, k) \o <<x>> \o SubSeq(rest, k + 1, Len(rest))

\* the year and month of date - relativedelta(months=n)
MonthsBefore(date, n) ==
  LET ym == date.year * 12 + (date.month - 1) - n
  IN [year |-> ym \div 12, month |-> (ym % 12) + 1]

\* GetDateRange that ends with today's month
GetDateRangeToThisMonth(today, months) ==
  LET startMonth == MonthsBefore(today, months)
      endMonth == MonthsBefore(today, 0)
      lastDay == DaysInMonth(endMonth.year, endMonth.month)
  IN [start |-> Date(startMonth.year, startMonth.month, 1),
      end |-> Date(endMonth.year, endMonth.month, lastDay)]

\* MonthlyAnalyzer.GetDateRange
GetDateRange(today, months) ==
  LET startMonth == MonthsBefore(today, months)
      endMonth == MonthsBefore(today, 1)
      lastDay == DaysInMonth(endMonth.year, endMonth.month)
  IN [start |-> Date(startMonth.year, startMonth.month, 1),
      end |-> Date(endMonth.year, endMonth.month, lastDay)]

\* "%i.%s" % (date.year, str(date.month).zfill(2))
Bucket(date) == NatStr(date.year) \o <<".">> \o ZFill(NatStr(date.month), 2)

\* the order of characters: '.' comes before the digits
Ord(c) == IF c = "." THEN 0 ELSE DigitOf(c) + 1

\* a < b on strings
RECURSIVE StrLess(_, _)
StrLess(a, b) ==
  IF b = <<>> THEN FALSE
  ELSE IF a = <<>> THEN TRUE
  ELSE IF Head(a) # Head(b) THEN Ord(Head(a)) < Ord(Head(b))
  ELSE StrLess(Tail(a), Tail(b))

\* sorted(keys) of a set of strings
RECURSIVE SortedKeys(_)
SortedKeys(S) ==
  IF S = {} THEN <<>>
  ELSE LET m == CHOOSE x \in S : \A y \in S \ {x} : StrLess(x, y)
       IN <<m>> \o SortedKeys(S \ {m})

\* addtobucket
addtobucket(buckets, bucket, amount) ==
  IF bucket \in DOMAIN buckets
  THEN [buckets EXCEPT ![bucket] = @ + amount]
  ELSE [k \in DOMAIN buckets \cup {bucket} |->
          IF k = bucket THEN amount ELSE buckets[k]]

\* the loop of GetEarnings over the transactions in the order given
RECURSIVE Accumulate(_, _, _)
Accumulate(ts, range, buckets) ==
  IF ts = <<>> THEN buckets
  ELSE LET date == Head(ts).Date
       IN IF ~DateLess(date, range.start)
          THEN IF DateLess(range.end, date)
               THEN buckets
               ELSE Accumulate(Tail(ts), range,
                               addtobucket(buckets, Bucket(date), Head(ts).Amount))
          ELSE Accumulate(Tail(ts), range, buckets)

\* GetEarnings that takes the transactions in the caller's order
GetEarningsUnsorted(today, months, transactions) ==
  LET buckets == Accumulate(transactions, GetDateRange(today, months), <<>>)
      keys == SortedKeys(DOMAIN buckets)
  IN [k \in 1..Len(keys) |-> <<keys[k], buckets[keys[k]]>>]

\* MonthlyAnalyzer.GetEarnings
GetEarnings(today, months, transactions) ==
  LET buckets == Accumulate(Sorted(transactions), GetDateRange(today, months), <<>>)
      keys == SortedKeys(DOMAIN buckets)
  IN [k \in 1..Len(keys) |-> <<keys[k], buckets[keys[k]]>>]

\* ---- the state machine --------------------------------------------------
World ==
  [accounts |-> accounts, heap |-> heap, rows |-> rows, nextRow |-> nextRow,
   currency |-> currency, trace |-> <<>>, ret |-> <<>>, made |-> <<>>,
   exc |-> ""]

Call(op, name, name2, obj, amount) ==
  [op |-> op, name |-> name, name2 |-> name2, obj |-> obj, amount |-> amount,
   date |-> NoDate]

\* a call that is given a date
CallOn(op, name, name2, obj, amount, date) ==
  [Call(op, name, name2, obj, amount) EXCEPT !.date = date]

\* what a call leaves behind; transactions of accounts no longer in the list
\* are unreachable and dropped
Commit(w, call) ==
  LET live == {o \in DOMAIN w.heap : PosOf(w.accounts, w.heap[o].Parent) # 0}
  IN /\ accounts' = w.accounts
     /\ heap' = [o \in live |-> w.heap[o]]
     /\ rows' = w.rows
     /\ nextRow' = w.nextRow
     /\ currency' = w.currency
     /\ adds' = IF call.op \in {"AddTransaction", "Transfer"} THEN adds + 1 ELSE adds
     /\ trace' = w.trace
     /\ calc' = calc
     /\ lastOp' = [op |-> call.op, name |-> call.name, name2 |-> call.name2,
                   obj |-> call.obj, amount |-> call.amount, date |-> call.date,
                   result |-> IF w.exc = "" THEN "ok" ELSE w.exc,
                   ret |-> w.ret]

InitRow(aid) ==
  [acct |-> aid, Date |-> Today, Description |-> <<"">>, Amount |-> 1]

\* an account as the Store hands it over at start-up: its list not fetched,
\* its Balance the sum of the rows persisted for it
Stored(aID, name, persisted) ==
  [ID |-> aID, Name |-> name, Balance |-> SumRows(persisted),
   loaded |-> FALSE, Transactions |-> <<>>]

\* no call of the currency, date or analyzer functions has been made
Idle == [fn |-> "idle"]

InitRest ==
  /\ nextRow = Len(rows) + 1
  /\ calc = Idle
  /\ adds = 0
  /\ heap = [o \in {} |-> 0]
  /\ currency = 0
  /\ trace = <<>>
  /\ lastOp = [op |-> "init", name |-> "", name2 |-> "", obj |-> 0, amount |-> 0,
               date |-> NoDate,
               result |-> "ok", ret |-> <<>>]

\* one account, with one persisted transaction
Init ==
  /\ accounts = <<Stored(1, "a", <<InitRow(1)>>)>>
  /\ rows = <<InitRow(1)>>
  /\ InitRest

\* two accounts, the first with one persisted transaction
InitLedger ==
  /\ accounts = <<Stored(1, "a", <<InitRow(1)>>), Stored(2, "b", <<>>)>>
  /\ rows = <<InitRow(1)>>
  /\ InitRest

DoGet ==
  \E name \in Names : Commit(Get(World, name), Call("Get", name, "", 0, 0))

DoCreate ==
  \E name \in Names :
    /\ Commit(Create(World, name), Call("Create", name, "", 0, 0))

DoRemove ==
  \E name \in Names : Commit(Remove(World, name), Call("Remove", name, "", 0, 0))

DoRename ==
  \E i \in 1..Len(accounts), name \in Names :
    Commit(SetName(World, i, name), Call("Rename", accounts[i].Name, name, 0, 0))

DoGetTransactions ==
  \E i \in 1..Len(accounts) :
    Commit(GetTransactions(World, i),
           Call("GetTransactions", accounts[i].Name, "", 0, 0))

DoAddTransaction ==
  \E i \in 1..Len(accounts), amount \in AddAmounts, description \in Descriptions :
    /\ adds < MaxAdds
    /\ Commit(AddTransaction(World, accounts[i].ID, amount, description, NoDate, 0),
              Call("AddTransaction", accounts[i].Name, "", 0, amount))

DoTransfer ==
  \E i \in 1..Len(accounts), s \in 1..Len(accounts),
     amount \in Amounts, description \in Descriptions :
    /\ adds < MaxAdds
    /\ s # i
    /\ Commit(AddTransaction(World, accounts[i].ID, amount, description, NoDate,
                             accounts[s].ID),
              Call("Transfer", accounts[i].Name, accounts[s].Name, 0, amount))

DoRemoveTransaction ==
  \E i \in 1..Len(accounts), t \in DOMAIN heap :
    Commit(RemoveTransaction(World, accounts[i].ID, t),
           Call("RemoveTransaction", accounts[i].Name, "", t, 0))

\* an in-place edit, to another amount, of a transaction held in its account's list
DoSetAmount ==
  \E i \in 1..Len(accounts), amount \in Amounts :
    \E t \in Range(accounts[i].Transactions) :
      /\ heap[t].Parent = accounts[i].ID
      /\ heap[t].Amount # amount
      /\ Commit(SetAmount(World, t, amount),
                Call("SetAmount", accounts[i].Name, "", t, amount))

DoSetCurrency ==
  \E c \in Currencies :
    Commit(setCurrency(World, c, MaxDepth), Call("setCurrency", "", "", 0, c))

DoUserCurrencyChanged ==
  \E c \in Currencies :
    Commit(UserCurrencyChanged(World, c, MaxDepth),
           Call("user.currency_changed", "", "", 0, c))

\* the bank: accounts come and go, money is entered and moved
Next ==
  \/ DoGet
  \/ DoCreate
  \/ DoRemove
  \/ DoRename
  \/ DoAddTransaction
  \/ DoTransfer
  \/ DoSetCurrency
  \/ DoUserCurrencyChanged

Spec == Init /\ [][Next]_vars

\* the ledger of two accounts: transactions are fetched, entered, edited, removed
NextLedger ==
  \/ DoGetTransactions
  \/ DoAddTransaction
  \/ DoRemoveTransaction
  \/ DoSetAmount

SpecLedger == InitLedger /\ [][NextLedger]_vars

\* ---- the currency functions, called on their own -------------------------
\* amounts that are whole numbers of hundredths, up to 2 * 10^MaxPow + 12345,
\* and 1234567.89
Hundredths ==
  {0, 123456789} \cup {lead * Pow10(k) + tail :
              lead \in {1, 2}, k \in 0..MaxPow, tail \in {0, 99, 12345}}

\* amounts in thousandths, none of them half way between two hundredths
Thousandths == {0, 1, 4, 6, 9, 14, 996, 1004, 123456}

Numbers ==
  {Decimal(neg, n, 2) : neg \in BOOLEAN, n \in Hundredths}
    \cup {Decimal(neg, n, 3) : neg \in BOOLEAN, n \in Thousandths}

Justs == {0, 16}

NoBank ==
  /\ accounts = <<>>
  /\ rows = <<>>
  /\ InitRest

DoFloat2Str ==
  \E cur \in CurrencyClasses, number \in Numbers, just \in Justs :
    /\ calc' = [fn |-> "float2str", cur |-> cur, number |-> number,
                just |-> just, str |-> float2str(cur, number, just)]
    /\ UNCHANGED bank

\* the string float2str returned is handed to str2float of the same currency
DoStr2Float ==
  /\ calc.fn = "float2str"
  /\ calc' = [calc EXCEPT !.fn = "str2float"] @@ (("val") :> str2float(calc.cur, calc.str))
  /\ UNCHANGED bank

NextMoney == DoFloat2Str \/ DoStr2Float

SpecMoney == NoBank /\ [][NextMoney]_vars

\* ---- the date normalizer, called on its own -------------------------------
\* the years today may fall in
CurrentYears == {1999, 2008, 2095}

\* the years written: every abbreviation, and some years in full
WrittenYears == (0..99) \cup {100, 1919, 2008}

\* years written next to the two ends of the abbreviations
EdgeYears == {0, 8, 18, 19, 99, 2008}

Separators == {"-", "/"}

\* (month, day) pairs written, the last two not of any calendar
WrittenDays == {<<1, 6>>, <<2, 29>>, <<2, 30>>, <<13, 1>>}

\* the call _MassageDate(str) made in the year currentYear
DateCall(currentYear, year, md, sep1, sep2, str) ==
  [fn |-> "_MassageDate", today |-> currentYear, year |-> year,
   month |-> md[1], day |-> md[2], sep1 |-> sep1, sep2 |-> sep2,
   str |-> str, out |-> MassageDateString(str, currentYear)]

\* every year, written "yy-mm-d"
DoMassageDate ==
  \E currentYear \in CurrentYears, year \in WrittenYears :
    /\ calc' = DateCall(currentYear, year, <<1, 6>>, "-", "-",
                        ZFill(NatStr(year), 2) \o <<"-", "0", "1", "-", "6">>)
    /\ UNCHANGED bank

\* either separator in either place, days of no calendar, no padding
DoMassageDateWritten ==
  \E currentYear \in CurrentYears, year \in EdgeYears, md \in WrittenDays,
     sep1 \in Separators, sep2 \in Separators :
    /\ calc' = DateCall(currentYear, year, md, sep1, sep2,
                        NatStr(year) \o <<sep1>> \o ZFill(NatStr(md[1]), 2)
                          \o <<sep2>> \o NatStr(md[2]))
    /\ UNCHANGED bank

\* a datetime.date handed in goes through str() and the same steps
DoMassageDateObject ==
  \E currentYear \in CurrentYears, year \in WrittenYears \ {0}, md \in WrittenDays :
    /\ year \in EdgeYears \/ year >= 99
    /\ Date(year, md[1], md[2]).exc = ""
    /\ calc' = DateCall(currentYear, year, md, "-", "-",
                        DateStr(Date(year, md[1], md[2])))
    /\ UNCHANGED bank

NextDate == DoMassageDate \/ DoMassageDateWritten \/ DoMassageDateObject

SpecDate == NoBank /\ [][NextDate]_vars

\* ---- the analyzer, called on transactions handed to it --------------------
Day(year, month, day) == [year |-> year, month |-> month, day |-> day]

\* the transactions that may be handed over, amounts in hundredths
Dated ==
  {[Date |-> Day(2009, 2, 5), Amount |-> 1000],
   [Date |-> Day(2009, 2, 20), Amount |-> 500],
   [Date |-> Day(2009, 1, 1), Amount |-> 10000],
   [Date |-> Day(2008, 12, 31), Amount |-> 300],
   [Date |-> Day(2009, 3, 1), Amount |-> 700],
   [Date |-> Day(2009, 2, 5), Amount |-> 0 - 1000]}

Todays == {Day(2009, 3, 10), Day(2009, 1, 31)}

MonthsBack == {1, 2, 12}

\* the transactions collected so far for the analyzer
Entered == IF calc.fn = "idle" THEN <<>> ELSE calc.transactions

DoEnter ==
  \E t \in Dated :
    /\ Len(Entered) < MaxTx
    /\ calc' = [fn |-> "enter", transactions |-> Append(Entered, t)]
    /\ UNCHANGED bank

DoGetEarnings ==
  \E today \in Todays, months \in MonthsBack :
    /\ calc' = [fn |-> "GetEarnings", transactions |-> Entered, today |-> today,
                months |-> months, out |-> GetEarnings(today, months, Entered)]
    /\ UNCHANGED bank

NextAnalyzer == DoEnter \/ DoGetEarnings

SpecAnalyzer == NoBank /\ [][NextAnalyzer]_vars

\* the bank seen by a subscriber: accounts and transactions come and go
NextEvents ==
  \/ DoCreate
  \/ DoRemove
  \/ DoRename
  \/ DoAddTransaction
  \/ DoRemoveTransaction

SpecEvents == Init /\ [][NextEvents]_vars

\* ---- the date range of the analyzer, asked for on its own ------------------
\* days the analyzer may be constructed on: ends of months, a leap day, the
\* first and the last month of a year
RangeDays ==
  {Day(2009, 3, 10), Day(2009, 1, 31), Day(2009, 3, 31), Day(2008, 2, 29),
   Day(2008, 3, 30), Day(2009, 12, 1), Day(2000, 1, 1), Day(2100, 5, 31)}

DoGetDateRange ==
  \E today \in RangeDays, months \in 1..MaxMonths :
    /\ calc' = [fn |-> "GetDateRange", today |-> today, months |-> months,
                out |-> GetDateRange(today, months)]
    /\ UNCHANGED bank

NextRange == DoGetDateRange

SpecRange == NoBank /\ [][NextRange]_vars

\* ---- the ledger with dated entries and edits of a transaction's fields -----
\* dates as they are typed that are of no calendar or cannot be read: the 30th
\* of February, a month 13, a date with a part missing, one with a letter in it
BadDates ==
  {<<"2", "0", "0", "9", "-", "0", "2", "-", "3", "0">>,
   <<"2", "0", "0", "9", "/", "1", "3", "/", "0", "1">>,
   <<"2", "0", "0", "9", "-", "0", "2">>,
   <<"x", "9", "-", "0", "2", "-", "0", "5">>}

\* the date arguments of a call: none, the 5th of February 2009, the bad ones
DateArgs ==
  {NoDate, <<"2", "0", "0", "9", "-", "0", "2", "-", "0", "5">>} \cup BadDates

EditDescriptions == {"", "d"}

DoAddTransactionOn ==
  \E i \in 1..Len(accounts), amount \in AddAmounts, description \in Descriptions,
     date \in DateArgs :
    /\ adds < MaxAdds
    /\ Commit(AddTransaction(World, accounts[i].ID, amount, description, date, 0),
              CallOn("AddTransaction", accounts[i].Name, "", 0, amount, date))

DoTransferOn ==
  \E i \in 1..Len(accounts), s \in 1..Len(accounts),
     amount \in AddAmounts, description \in Descriptions, date \in DateArgs :
    /\ adds < MaxAdds
    /\ s # i
    /\ Commit(AddTransaction(World, accounts[i].ID, amount, description, date,
                             accounts[s].ID),
              CallOn("Transfer", accounts[i].Name, accounts[s].Name, 0, amount, date))

\* transaction.Date = date, on a transaction some account holds
DoSetDate ==
  \E t \in DOMAIN heap, date \in DateArgs :
    Commit(SetDate(World, t, date),
           CallOn("SetDate", NameOf(accounts, heap[t].Parent), "", t, 0, date))

\* transaction.Description = description
DoSetDescription ==
  \E t \in DOMAIN heap, description \in EditDescriptions :
    Commit(SetDescription(World, t, <<description>>),
           Call("SetDescription", NameOf(accounts, heap[t].Parent), "", t, 0))

\* two accounts with nothing persisted, their lists fetched
InitEdits ==
  /\ accounts = <<[Stored(1, "a", <<>>) EXCEPT !.loaded = TRUE],
                  [Stored(2, "b", <<>>) EXCEPT !.loaded = TRUE]>>
  /\ rows = <<>>
  /\ InitRest

\* entries and transfers are dated, dates are edited
NextDated ==
  \/ DoAddTransactionOn
  \/ DoTransferOn
  \/ DoSetDate

SpecDated == InitEdits /\ [][NextDated]_vars

\* transactions are entered, and edited field by field
NextEdits ==
  \/ DoAddTransaction
  \/ DoSetDate
  \/ DoSetDescription
  \/ DoSetAmount

SpecEdits == InitEdits /\ [][NextEdits]_vars

\* ---- properties ----------------------------------------------------------
Pubs(tr) == {k \in 1..Len(tr) : tr[k].kind = "pub"}

StoreCalls(tr, what) ==
  {k \in 1..Len(tr) : tr[k].kind = "store" /\ tr[k].topic = <<"Store", what>>}

Named(accts, name) == {i \in 1..Len(accts) : accts[i].Name = name}

RECURSIVE SumOver(_, _)
SumOver(f, S) ==
  IF S = {} THEN 0
  ELSE LET x == CHOOSE y \in S : TRUE IN f[x] + SumOver(f, S \ {x})

\* the amounts of the transactions an account holds: those of its list, or,
\* while the list is not fetched, those persisted for it
PersistedOf(aid) == {r \in DOMAIN rows : rows[r].acct = aid}

HeldSum(i) ==
  IF accounts[i].loaded
  THEN SumAmounts(heap, accounts[i].Transactions)
  ELSE SumOver([r \in PersistedOf(accounts[i].ID) |-> rows[r].Amount],
               PersistedOf(accounts[i].ID))

HeldCount(i) ==
  IF accounts[i].loaded
  THEN Len(accounts[i].Transactions)
  ELSE Cardinality(PersistedOf(accounts[i].ID))

\* C1: every account's cached Balance equals the sum of the Amounts of the
\* transactions it holds, after any AddTransaction, RemoveTransaction or edit.
C1_BalanceIsSum ==
  \A i \in 1..Len(accounts) : accounts[i].Balance = HeldSum(i)

\* C2: setting the Amount of a transaction held by account A moves A's Balance
\* by exactly new - old, and the Balance of no other account of the list.
C2_EditMovesOnlyOwner ==
  [][(lastOp'.op = "SetAmount" /\ lastOp'.result = "ok") =>
       LET t == lastOp'.obj
           A == PosOf(accounts, heap[t].Parent)
       IN /\ Len(accounts') = Len(accounts)
          /\ accounts'[A].Balance =
               accounts[A].Balance + (lastOp'.amount - heap[t].Amount)
          /\ \A j \in 1..Len(accounts) :
               j # A => accounts'[j].Balance = accounts[j].Balance]_vars

\* an edit has just acted on a transaction of one account while another
\* account holds a transaction of the same date, amount and description
C2_Witness ==
  /\ lastOp.op = "SetAmount"
  /\ lastOp.result = "ok"
  /\ \E j \in 1..Len(accounts) :
       /\ accounts[j].ID # heap[lastOp.obj].Parent
       /\ \E u \in Range(accounts[j].Transactions) :
            /\ heap[u].Amount = heap[lastOp.obj].Amount
            /\ heap[u].Date = heap[lastOp.obj].Date
            /\ heap[u].Description = heap[lastOp.obj].Description

\* C3: D.AddTransaction(amount, source=S), S # D, adds exactly one transaction
\* of -amount to S and one of +amount to D, moves the two Balances by -amount
\* and +amount, and returns (D's transaction, S's transaction).
C3_Transfer ==
  [][(lastOp'.op = "Transfer" /\ lastOp'.result = "ok") =>
       \E d \in Named(accounts, lastOp'.name), s \in Named(accounts, lastOp'.name2) :
         LET amount == lastOp'.amount
             dList == accounts'[d].Transactions
             sList == accounts'[s].Transactions
         IN /\ Len(dList) = HeldCount(d) + 1
            /\ Len(sList) = HeldCount(s) + 1
            /\ Len(lastOp'.ret) = 2
            /\ lastOp'.ret[1] = dList[Len(dList)]
            /\ lastOp'.ret[2] = sList[Len(sList)]
            /\ heap'[lastOp'.ret[1]].Amount = amount
            /\ heap'[lastOp'.ret[2]].Amount = -amount
            /\ heap'[lastOp'.ret[1]].Amount + heap'[lastOp'.ret[2]].Amount = 0
            /\ accounts'[d].Balance = accounts[d].Balance + amount
            /\ accounts'[s].Balance = accounts[s].Balance - amount]_vars

\* C4: no two accounts of the AccountList have the same Name.
C4_UniqueNames ==
  \A i, j \in 1..Len(accounts) : accounts[i].Name = accounts[j].Name => i = j

\* a Create or Rename has just been refused in a list of two accounts
C4_Witness ==
  /\ Len(accounts) = 2
  /\ lastOp.op \in {"Create", "Rename"}
  /\ lastOp.result = "AccountAlreadyExists"

\* C5: Create(name) with the name already in the list fails with
\* AccountAlreadyExists, calls no Store.CreateAccount, publishes nothing and
\* leaves the list unchanged.
C5_CreateExisting ==
  [][(lastOp'.op = "Create" /\ Named(accounts, lastOp'.name) # {}) =>
       /\ lastOp'.result = "AccountAlreadyExists"
       /\ StoreCalls(trace', "CreateAccount") = {}
       /\ Pubs(trace') = {}
       /\ accounts' = accounts]_vars

C5_Witness ==
  /\ lastOp.op = "Create"
  /\ lastOp.result = "AccountAlreadyExists"
  /\ Named(accounts, lastOp.name) # {}

\* C6: renaming A to the name held by another account B fails with
\* AccountAlreadyExists, leaves both names unchanged and publishes no
\* account.renamed event.
C6_RenameToSibling ==
  [][(/\ lastOp'.op = "Rename"
      /\ lastOp'.name2 # lastOp'.name
      /\ Named(accounts, lastOp'.name2) # {}) =>
       /\ lastOp'.result = "AccountAlreadyExists"
       /\ Len(accounts') = Len(accounts)
       /\ \A i \in 1..Len(accounts) : accounts'[i].Name = accounts[i].Name
       /\ \A k \in Pubs(trace') : SubSeq(trace'[k].topic, 1, 2) # <<"account", "renamed">>]_vars

C6_Witness ==
  /\ lastOp.op = "Rename"
  /\ lastOp.name2 # lastOp.name
  /\ lastOp.result = "AccountAlreadyExists"
  /\ Named(accounts, lastOp.name) # {}
  /\ Named(accounts, lastOp.name2) # {}

\* C7: Get(name) and Remove(name) with a name no account has fail with
\* InvalidAccount, call nothing on the Store, publish nothing and leave the
\* list and every account unchanged.
C7_MissingAccount ==
  [][(lastOp'.op \in {"Get", "Remove"} /\ Named(accounts, lastOp'.name) = {}) =>
       /\ lastOp'.result = "InvalidAccount"
       /\ trace' = <<>>
       /\ accounts' = accounts
       /\ heap' = heap
       /\ rows' = rows]_vars

\* a Remove of an absent name has just been refused by a list that has accounts
C7_Witness ==
  /\ lastOp.op = "Remove"
  /\ lastOp.result = "InvalidAccount"
  /\ Len(accounts) > 0
  /\ Named(accounts, lastOp.name) = {}

\* C8: RemoveTransaction(t) with t not in the account's list fails with
\* InvalidTransaction, calls no Store.RemoveTransaction, publishes nothing and
\* leaves the list and the Balance unchanged.
C8_RemoveNonMember ==
  [][\A i \in Named(accounts, lastOp'.name) :
       (/\ lastOp'.op = "RemoveTransaction"
        /\ lastOp'.obj \notin Range(accounts[i].Transactions)) =>
         /\ lastOp'.result = "InvalidTransaction"
         /\ StoreCalls(trace', "RemoveTransaction") = {}
         /\ Pubs(trace') = {}
         /\ accounts'[i].Balance = accounts[i].Balance
         /\ accounts[i].loaded => accounts'[i].Transactions = accounts[i].Transactions]_vars

\* C9: BankModel.GetBalance() is the sum of the Balances of the accounts in
\* the list; a Remove lowers it by the removed account's Balance and a
\* transfer between two accounts leaves it unchanged.
C9_BankBalance ==
  [][/\ GetBalance' =
          SumOver([i \in 1..Len(accounts') |-> accounts'[i].Balance],
                  1..Len(accounts'))
     /\ (lastOp'.op = "Remove" /\ lastOp'.result = "ok") =>
          \E i \in Named(accounts, lastOp'.name) :
            GetBalance' = GetBalance - accounts[i].Balance
     /\ (lastOp'.op = "Transfer" /\ lastOp'.result = "ok") =>
          GetBalance' = GetBalance]_vars

\* an account with a Balance has just been removed and one with a Balance remains
C9_Witness ==
  /\ lastOp.op = "Remove"
  /\ lastOp.result = "ok"
  /\ \E k \in Pubs(trace) : trace[k].bal # 0
  /\ GetBalance # 0

\* C10: a setCurrency call, and the handling of a currency message from
\* elsewhere, ends after exactly one Store.setCurrency call and exactly one
\* currency_changed publication.
C10_CurrencyOnce ==
  lastOp.op \in {"setCurrency", "user.currency_changed"} =>
    /\ lastOp.result = "ok"
    /\ Cardinality(StoreCalls(trace, "setCurrency")) = 1
    /\ Cardinality({k \in Pubs(trace) : trace[k].topic = <<"currency_changed">>}) = 1
    /\ currency = lastOp.amount

\* a currency message from elsewhere has just been handled
C10_Witness ==
  /\ lastOp.op = "user.currency_changed"
  /\ lastOp.amount # 0
  /\ currency = lastOp.amount

\* whether number is printed as zero by '%.2f'
RoundsToZero(x) ==
  /\ x.scale >= 2
  /\ x.n < Pow10(x.scale - 2)
  /\ 2 * x.n < Pow10(x.scale - 2)

\* C11: for every currency, every amount that is a whole number of hundredths
\* and every minimum width, str2float(float2str(amount, just)) == amount.
C11_RoundTrip ==
  (calc.fn = "str2float" /\ calc.number.scale = 2)
    => (calc.val.exc = "" /\ FloatEq(calc.val, calc.number))

\* a negative amount of a million or more, padded, has come back
C11_Witness ==
  /\ calc.fn = "str2float"
  /\ calc.number.scale = 2 /\ calc.number.neg /\ calc.number.n >= Pow10(8)
  /\ calc.cur = USD
  /\ Len(calc.str) = 16 /\ Head(calc.str) = " "
  /\ FloatEq(calc.val, calc.number)

\* C12: float2str never returns a string containing "-0.00"; an amount that
\* rounds to zero at two decimals, small negatives included, is rendered as
\* the currency symbol followed by "0.00".
C12_NoNegativeZero ==
  calc.fn = "float2str" =>
    /\ ~HasSubstring(calc.str, <<"-", "0", ".", "0", "0">>)
    /\ RoundsToZero(calc.number)
         => Strip(calc.str) = calc.cur.Symbol \o <<"0", ".", "0", "0">>

\* a negative amount below half a hundredth has been formatted
C12_Witness ==
  /\ calc.fn = "float2str"
  /\ calc.number.neg /\ calc.number.n > 0 /\ RoundsToZero(calc.number)
  /\ calc.str = <<"$", "0", ".", "0", "0">>

\* the year the rule of C13 gives a written year
C13_Year(year, currentYear) ==
  IF year >= 100 THEN year
  ELSE IF year <= (currentYear % 100) + 10
       THEN (currentYear \div 100) * 100 + year
       ELSE ((currentYear \div 100) - 1) * 100 + year

\* C13: a date string with a year below 100 gets the year
\* (currentYear div 100)*100 + year when year <= (currentYear mod 100) + 10,
\* else (currentYear div 100 - 1)*100 + year; a year of 100 or more is kept;
\* in 2008, 08 is 2008, 18 is 2018, 19 is 1919, 99 is 1999 and 00 is 2000;
\* '/' and '-' are both accepted as separators.
C13_AbbreviatedYear ==
  (calc.fn = "_MassageDate"
     /\ Date(C13_Year(calc.year, calc.today), calc.month, calc.day).exc = "")
    => /\ calc.out = Date(C13_Year(calc.year, calc.today), calc.month, calc.day)
       /\ calc.today = 2008 =>
            /\ calc.year = 8 => calc.out.year = 2008
            /\ calc.year = 18 => calc.out.year = 2018
            /\ calc.year = 19 => calc.out.year = 1919
            /\ calc.year = 99 => calc.out.year = 1999
            /\ calc.year = 0 => calc.out.year = 2000

\* in 2008, "18/01-6" has become 2018-01-06
C13_Witness ==
  /\ calc.fn = "_MassageDate"
  /\ calc.today = 2008
  /\ calc.str = <<"1", "8", "/", "0", "1", "-", "6">>
  /\ calc.sep1 = "/" /\ calc.sep2 = "-"
  /\ calc.out = [exc |-> "", year |-> 2018, month |-> 1, day |-> 6]

\* the transactions of the last GetEarnings call dated within its range
C14_InRange ==
  LET range == GetDateRange(calc.today, calc.months)
  IN {k \in 1..Len(calc.transactions) :
        /\ ~DateLess(calc.transactions[k].Date, range.start)
        /\ ~DateLess(range.end, calc.transactions[k].Date)}

C14_InMonth(ym) ==
  {k \in C14_InRange : /\ calc.transactions[k].Date.year = ym[1]
                       /\ calc.transactions[k].Date.month = ym[2]}

C14_Months ==
  {<<calc.transactions[k].Date.year, calc.transactions[k].Date.month>> :
     k \in C14_InRange}

\* C14: whatever the order of the input, GetEarnings returns exactly one
\* ("YYYY.MM", total) pair for each calendar month of the date range that
\* holds at least one transaction, the total being the sum of the Amounts of
\* the transactions dated in that month, in ascending key order; transactions
\* before the start or after the end of the range contribute nothing.
C14_Earnings ==
  calc.fn = "GetEarnings" =>
    /\ Len(calc.out) = Cardinality(C14_Months)
    /\ \A ym \in C14_Months :
         \E k \in 1..Len(calc.out) :
           /\ calc.out[k][1] = Bucket(Day(ym[1], ym[2], 1))
           /\ calc.out[k][2] =
                SumOver([j \in C14_InMonth(ym) |-> calc.transactions[j].Amount],
                        C14_InMonth(ym))
    /\ \A k \in 1..(Len(calc.out) - 1) : StrLess(calc.out[k][1], calc.out[k + 1][1])
    /\ (/\ calc.today = Day(2009, 3, 10) /\ calc.months = 1
        /\ calc.transactions =
             <<[Date |-> Day(2009, 2, 5), Amount |-> 1000],
               [Date |-> Day(2009, 2, 20), Amount |-> 500],
               [Date |-> Day(2009, 1, 1), Amount |-> 10000]>>)
         => calc.out = << <<<<"2", "0", "0", "9", ".", "0", "2">>, 1500>> >>

\* transactions handed over latest first, one after the range, one in it and
\* one before it: only the month of the middle one is reported
C14_Witness ==
  /\ calc.fn = "GetEarnings"
  /\ calc.today = Day(2009, 3, 10) /\ calc.months = 1
  /\ calc.transactions =
       <<[Date |-> Day(2009, 3, 1), Amount |-> 700],
         [Date |-> Day(2009, 2, 20), Amount |-> 500],
         [Date |-> Day(2009, 1, 1), Amount |-> 10000]>>
  /\ calc.out = << <<<<"2", "0", "0", "9", ".", "0", "2">>, 500>> >>

\* C15: the first AddTransaction on an account whose list is not loaded yet
\* (its Balance being the sum of its persisted transactions, all of which the
\* Store returns) leaves the new transaction in the in-memory list exactly
\* once, and Balance == sum of the Amounts of the list still holds.
C15_FirstAddOnce ==
  [][\A i \in Named(accounts, lastOp'.name) :
       (/\ lastOp'.op = "AddTransaction" /\ lastOp'.result = "ok"
        /\ ~accounts[i].loaded
        /\ accounts[i].Balance = HeldSum(i))
         => LET list == accounts'[i].Transactions
                t == lastOp'.ret[1]
            IN /\ Cardinality({k \in 1..Len(list) :
                                 heap'[list[k]].ID = heap'[t].ID}) = 1
               /\ accounts'[i].Balance = SumAmounts(heap', list)]_vars

\* C16: Rename(newName) succeeds whenever no other account has newName, the
\* account's own current name included: Name becomes newName and exactly one
\* account.renamed.<oldName> event, with payload (oldName, account), is
\* published, after the name is updated.
C16_RenameSucceeds ==
  [][\A i \in Named(accounts, lastOp'.name) :
       (/\ lastOp'.op = "Rename"
        /\ \A j \in Named(accounts, lastOp'.name2) : j = i)
         => /\ lastOp'.result = "ok"
            /\ accounts'[i].Name = lastOp'.name2
            /\ Cardinality(Pubs(trace')) = 1
            /\ \A k \in Pubs(trace') :
                 /\ trace'[k].topic = <<"account", "renamed", lastOp'.name>>
                 /\ trace'[k].obj = accounts[i].ID
                 /\ trace'[k].member]_vars

\* whether the publication e is of the given kind of structural event
IsEvent(e, what, how) ==
  e.kind = "pub" /\ Len(e.topic) = 3 /\ SubSeq(e.topic, 1, 2) = <<what, how>>

\* C17: at the moment a structural event is delivered the structure already
\* shows the change: a created account is in the AccountList, a removed one is
\* not, a renamed one has its new name, a created transaction is in the
\* account's list and a removed one is not.
C17_EventsSeeTheChange ==
  \A k \in 1..Len(trace) :
    /\ IsEvent(trace[k], "account", "created") => trace[k].member
    /\ IsEvent(trace[k], "account", "removed") => ~trace[k].member
    /\ IsEvent(trace[k], "account", "renamed") => trace[k].member
    /\ IsEvent(trace[k], "transaction", "created") => trace[k].member
    /\ IsEvent(trace[k], "transaction", "removed") => ~trace[k].member

\* C17 as it holds: an account.removed, account.renamed or transaction.created
\* event is delivered when the structure already shows the change, while
\* account.created is delivered before the account is in the AccountList and
\* transaction.removed while the transaction is still in the account's list.
C17_EventsAsDelivered ==
  [][\A k \in 1..Len(trace') :
       /\ IsEvent(trace'[k], "account", "removed") => ~trace'[k].member
       /\ IsEvent(trace'[k], "account", "renamed") => trace'[k].member
       /\ IsEvent(trace'[k], "transaction", "created") => trace'[k].member
       /\ IsEvent(trace'[k], "account", "created") => ~trace'[k].member
       /\ (/\ IsEvent(trace'[k], "transaction", "removed")
           /\ \E i \in Named(accounts, lastOp'.name) :
                /\ accounts[i].loaded
                /\ trace'[k].obj \in Range(accounts[i].Transactions))
            => trace'[k].member]_vars

\* a transaction held in the list has been removed, and its event was
\* delivered while the list still held it
C17_Witness ==
  /\ lastOp.op = "RemoveTransaction"
  /\ lastOp.result = "ok"
  /\ \E k \in 1..Len(trace) :
       /\ IsEvent(trace[k], "transaction", "removed")
       /\ trace[k].obj = lastOp.obj
       /\ trace[k].member
  /\ \A i \in Named(accounts, lastOp.name) :
       lastOp.obj \notin Range(accounts[i].Transactions)

\* the entries of a trace that are publications of the given topic
Events(tr, topic) == {k \in Pubs(tr) : tr[k].topic = topic}

\* C18: a non-transfer AddTransaction acts in the order Store.MakeTransaction,
\* append to the list, publish transaction.created.<name>, increment Balance:
\* when transaction.created is delivered the transaction is in the list and
\* Balance still has its value from before the call, and the balance-changed
\* event is delivered only once Balance holds the new value.
C18_AddOrder ==
  [][\A i \in Named(accounts, lastOp'.name) :
       (lastOp'.op = "AddTransaction" /\ lastOp'.result = "ok")
         => LET t == lastOp'.ret[1]
                made == StoreCalls(trace', "MakeTransaction")
                created == Events(trace', <<"transaction", "created", lastOp'.name>>)
                changed == Events(trace', <<"account", "balance changed", lastOp'.name>>)
            IN /\ made = {1}
               /\ trace'[1].obj = t /\ ~trace'[1].member
               /\ Cardinality(created) = 1 /\ Cardinality(changed) = 1
               /\ Pubs(trace') = created \cup changed
               /\ \A c \in created :
                    /\ trace'[c].obj = t
                    /\ trace'[c].member
                    /\ trace'[c].bal = accounts[i].Balance
                    /\ \A b \in changed :
                         /\ c < b
                         /\ trace'[b].bal = accounts[i].Balance + lastOp'.amount
                         /\ trace'[b].bal = accounts'[i].Balance]_vars

\* a transaction has been entered in an account whose list had to be fetched
\* on the way, and its creation was announced with the old Balance
C18_Witness ==
  /\ lastOp.op = "AddTransaction"
  /\ lastOp.result = "ok"
  /\ StoreCalls(trace, "getTransactionsFrom") # {}
  /\ \E i \in Named(accounts, lastOp.name) :
       \E c \in Events(trace, <<"transaction", "created", lastOp.name>>) :
         /\ trace[c].member
         /\ trace[c].bal = accounts[i].Balance - lastOp.amount

\* C19: a successful RemoveTransaction(t) calls Store.RemoveTransaction(t),
\* publishes transaction.removed.<name>, removes t from the list and lowers
\* Balance by t's Amount, in that order; afterwards the list has exactly one
\* entry fewer, and every other transaction of the account and every other
\* account are unchanged.
C19_RemoveOrderAndFrame ==
  [][\A i \in Named(accounts, lastOp'.name) :
       (/\ lastOp'.op = "RemoveTransaction" /\ lastOp'.result = "ok"
        /\ accounts[i].loaded
        /\ lastOp'.obj \in Range(accounts[i].Transactions))
         => LET t == lastOp'.obj
                list == accounts[i].Transactions
                removed == Events(trace', <<"transaction", "removed", lastOp'.name>>)
                changed == Events(trace', <<"account", "balance changed", lastOp'.name>>)
            IN /\ StoreCalls(trace', "RemoveTransaction") = {1}
               /\ trace'[1].obj = t
               /\ removed = {2} /\ trace'[2].obj = t
               /\ trace'[2].member /\ trace'[2].bal = accounts[i].Balance
               /\ changed = {3} /\ Len(trace') = 3
               /\ trace'[3].bal = accounts[i].Balance - heap[t].Amount
               /\ accounts'[i].Balance = accounts[i].Balance - heap[t].Amount
               /\ Len(accounts'[i].Transactions) = Len(list) - 1
               /\ t \notin Range(accounts'[i].Transactions)
               /\ \A u \in Range(list) \ {t} :
                    /\ u \in Range(accounts'[i].Transactions)
                    /\ heap'[u] = heap[u]
               /\ Len(accounts') = Len(accounts)
               /\ \A j \in 1..Len(accounts) : j # i => accounts'[j] = accounts[j]]_vars

\* the Store.MakeTransaction calls of a trace made for transaction t
MadeFor(tr, t) == {k \in StoreCalls(tr, "MakeTransaction") : tr[k].obj = t}

\* C20: in a transfer D.AddTransaction(amount, source=S) the source side is
\* done first and completely (persisted, appended, announced as
\* transaction.created.<S>, S's Balance lowered) before D's transaction is
\* made; D's transaction.created event is delivered after S's, when S's
\* Balance already shows -amount and D's does not yet show +amount.
C20_SourceFirst ==
  [][\A d \in Named(accounts, lastOp'.name), s \in Named(accounts, lastOp'.name2) :
       (lastOp'.op = "Transfer" /\ lastOp'.result = "ok")
         => LET amount == lastOp'.amount
                tD == lastOp'.ret[1]
                tS == lastOp'.ret[2]
                cS == Events(trace', <<"transaction", "created", lastOp'.name2>>)
                bS == Events(trace', <<"account", "balance changed", lastOp'.name2>>)
                cD == Events(trace', <<"transaction", "created", lastOp'.name>>)
                bD == Events(trace', <<"account", "balance changed", lastOp'.name>>)
            IN /\ Cardinality(MadeFor(trace', tS)) = 1
               /\ Cardinality(MadeFor(trace', tD)) = 1
               /\ Cardinality(cS) = 1 /\ Cardinality(bS) = 1
               /\ Cardinality(cD) = 1 /\ Cardinality(bD) = 1
               /\ \A k1 \in MadeFor(trace', tS), k2 \in cS, k3 \in bS,
                     k4 \in MadeFor(trace', tD), k5 \in cD, k6 \in bD :
                    /\ k1 < k2 /\ k2 < k3 /\ k3 < k4 /\ k4 < k5 /\ k5 < k6
                    /\ trace'[k2].obj = tS /\ trace'[k2].member
                    /\ trace'[k3].bal = accounts[s].Balance - amount
                    /\ trace'[k5].obj = tD /\ trace'[k5].member
                    /\ trace'[k5].bal = accounts[d].Balance
                    /\ trace'[k6].bal = accounts[d].Balance + amount]_vars

\* money has been moved from one account to another
C20_Witness ==
  /\ lastOp.op = "Transfer"
  /\ lastOp.result = "ok"
  /\ Len(lastOp.ret) = 2
  /\ \E k2 \in Events(trace, <<"transaction", "created", lastOp.name2>>),
        k5 \in Events(trace, <<"transaction", "created", lastOp.name>>) :
       /\ k2 < k5
       /\ trace[k2].obj = lastOp.ret[2]
       /\ trace[k5].obj = lastOp.ret[1]

\* the digits before the decimal character in what float2str returned, with
\* the padding, the symbol and a leading minus sign taken off
C24_IntegerPart ==
  LET body == SliceFrom(Strip(calc.str), Len(calc.cur.Symbol))
      unsigned == IF body # <<>> /\ Head(body) = "-" THEN Tail(body) ELSE body
  IN SubSeq(unsigned, 1, Len(unsigned) - 3)

\* C24: float2str puts the thousands separator after every group of 3 integer
\* digits counted left from the decimal point, whatever the magnitude and the
\* sign (1234567.89 in USD is "$1,234,567.89", -1234567.89 "$-1,234,567.89"),
\* and never directly after a leading minus sign.
C24_EveryThreeDigits ==
  calc.fn = "float2str" =>
    /\ \A k \in 1..Len(C24_IntegerPart) :
         (C24_IntegerPart[k] = calc.cur.SepChar)
           <=> ((Len(C24_IntegerPart) - k + 1) % 4 = 0)
    /\ C24_IntegerPart[1] # calc.cur.SepChar
    /\ (calc.cur = USD /\ calc.just = 0 /\ calc.number = Decimal(FALSE, 123456789, 2))
         => calc.str = <<"$", "1", ",", "2", "3", "4", ",", "5", "6", "7", ".", "8", "9">>
    /\ (calc.cur = USD /\ calc.just = 0 /\ calc.number = Decimal(TRUE, 123456789, 2))
         => calc.str = <<"$", "-", "1", ",", "2", "3", "4", ",", "5", "6", "7", ".", "8", "9">>

\* C25: whatever the current year, a two-digit year y becomes the one year
\* congruent to y modulo 100 in [currentYear - 89, currentYear + 10]: forward
\* when that is at most 10 years after the current year, backward otherwise,
\* and never more than 10 years in the future.
C25_Window ==
  (calc.fn = "_MassageDate" /\ calc.year < 100 /\ calc.out.exc = "")
    => /\ calc.out.year % 100 = calc.year
       /\ calc.out.year >= calc.today - 89
       /\ calc.out.year <= calc.today + 10

\* the number of a calendar month, counted from the year 0
MonthNumber(date) == date.year * 12 + (date.month - 1)

\* C26: for every today and every N >= 1, GetDateRange returns the first day
\* of the month N months before today's month and the last day of the month
\* just before today's month: N complete calendar months, start <= end, and
\* no date of the current month in the range.
C26_DateRange ==
  calc.fn = "GetDateRange" =>
    LET start == calc.out.start
        end == calc.out.end
    IN /\ start.exc = "" /\ end.exc = ""
       /\ start.day = 1
       /\ MonthNumber(start) = MonthNumber(calc.today) - calc.months
       /\ MonthNumber(end) = MonthNumber(calc.today) - 1
       /\ Date(end.year, end.month, end.day + 1).exc = "ValueError"
       /\ MonthNumber(end) - MonthNumber(start) + 1 = calc.months
       /\ ~DateLess(end, start)
       /\ DateLess(end, Date(calc.today.year, calc.today.month, 1))

\* on 31 March 2009 the last 13 months run from 1 February 2008 to
\* 28 February 2009
C26_Witness ==
  /\ calc.fn = "GetDateRange"
  /\ calc.today = Day(2009, 3, 31)
  /\ calc.months = 13
  /\ calc.out.start = Date(2008, 2, 1)
  /\ calc.out.end = Date(2009, 2, 28)

\* C22: a successful AccountList.Remove(name) detaches the account from the
\* list, then calls Store.RemoveAccount on it, then publishes exactly one
\* account.removed.<name> event; the other accounts keep their order, names,
\* balances and transactions, and afterwards Get(name) fails with
\* InvalidAccount while Create(name) succeeds again.
C22_RemoveOrderAndFrame ==
  [][\A i \in Named(accounts, lastOp'.name) :
       (lastOp'.op = "Remove" /\ lastOp'.result = "ok")
         => /\ Len(trace') = 2
            /\ StoreCalls(trace', "RemoveAccount") = {1}
            /\ trace'[1].obj = accounts[i].ID /\ ~trace'[1].member
            /\ Events(trace', <<"account", "removed", lastOp'.name>>) = {2}
            /\ trace'[2].obj = accounts[i].ID /\ ~trace'[2].member
            /\ accounts' = RemoveAt(accounts, i)
            /\ \A j \in 1..Len(accounts') :
                 \A t \in Range(accounts'[j].Transactions) : heap'[t] = heap[t]
            /\ Get(World', lastOp'.name).exc = "InvalidAccount"
            /\ Create(World', lastOp'.name).exc = ""
            /\ Named(Create(World', lastOp'.name).accounts, lastOp'.name) # {}]_vars

\* an account has been removed from a list in which another account, with a
\* transaction in its list, stays
C22_Witness ==
  /\ lastOp.op = "Remove"
  /\ lastOp.result = "ok"
  /\ Named(accounts, lastOp.name) = {}
  /\ \E j \in 1..Len(accounts) : accounts[j].Transactions # <<>>

\* C27: after any sequence of AddTransaction and RemoveTransaction calls on an
\* account, successful or failed, removals of a transaction equal in date,
\* amount and description to another one included, the transactions the Store
\* holds for the account are exactly the objects of its in-memory list.
C27_StoreIsList ==
  \A i \in 1..Len(accounts) :
    accounts[i].loaded =>
      /\ Len(accounts[i].Transactions) = Cardinality(PersistedOf(accounts[i].ID))
      /\ {heap[t].ID : t \in Range(accounts[i].Transactions)}
           = PersistedOf(accounts[i].ID)

\* the transaction.updated.* events of a trace
Updates(tr) == {k \in Pubs(tr) : IsEvent(tr[k], "transaction", "updated")}

\* C23: a date that is malformed, or whose month or day is of no calendar, is
\* refused before anything is changed: AddTransaction given such a date, plain
\* or as a transfer, fails having made no Store call and published no event,
\* with nothing appended and no Balance changed in either account, and SetDate
\* given such a date fails, publishes no transaction.updated.date event and
\* leaves the Date of the transaction as it was.
C23_BadDateRejected ==
  [][(/\ lastOp'.op \in {"AddTransaction", "Transfer", "SetDate"}
      /\ lastOp'.date \in BadDates)
       => /\ lastOp'.result # "ok"
          /\ trace' = <<>>
          /\ rows' = rows /\ nextRow' = nextRow
          /\ accounts' = accounts
          /\ heap' = heap]_vars

\* a transfer dated the 30th of February has been refused, nothing entered
C23_Witness ==
  /\ lastOp.op = "Transfer" /\ lastOp.result = "ValueError"
  /\ lastOp.date = <<"2", "0", "0", "9", "-", "0", "2", "-", "3", "0">>
  /\ rows = <<>>
  /\ \A i \in 1..Len(accounts) :
       accounts[i].Balance = 0 /\ accounts[i].Transactions = <<>>

\* a transaction dated the 5th of February keeps that date when SetDate is
\* given a month 13
C23_SetDateWitness ==
  /\ lastOp.op = "SetDate" /\ lastOp.result = "ValueError"
  /\ lastOp.date = <<"2", "0", "0", "9", "/", "1", "3", "/", "0", "1">>
  /\ lastOp.obj \in DOMAIN heap
  /\ heap[lastOp.obj].Date = Date(2009, 2, 5)

\* C21: the construction of a Transaction publishes no transaction.updated.*
\* event; on a constructed transaction SetDate and SetDescription each publish
\* exactly one event, of their own kind, with the payload (transaction, None),
\* and SetAmount publishes exactly one transaction.updated.amount event with
\* the payload (transaction, new amount - previous amount); each event is
\* delivered when the field already holds the new value.
C21_UpdateEvents ==
  [][/\ lastOp'.op = "AddTransaction" => Updates(trace') = {}
     /\ (lastOp'.op = "SetDate" /\ lastOp'.result = "ok")
          => \E k \in Updates(trace') :
               /\ Updates(trace') = {k}
               /\ trace'[k].topic = DateTopic
               /\ trace'[k].obj = lastOp'.obj /\ trace'[k].arg = None
               /\ trace'[k].member
               /\ heap'[lastOp'.obj].Date = MassageDate(lastOp'.date)
     /\ lastOp'.op = "SetDescription"
          => \E k \in Updates(trace') :
               /\ Updates(trace') = {k}
               /\ trace'[k].topic = DescriptionTopic
               /\ trace'[k].obj = lastOp'.obj /\ trace'[k].arg = None
               /\ trace'[k].member
     /\ lastOp'.op = "SetAmount"
          => \E k \in Updates(trace') :
               /\ Updates(trace') = {k}
               /\ trace'[k].topic = AmountTopic
               /\ trace'[k].obj = lastOp'.obj
               /\ trace'[k].arg = lastOp'.amount - heap[lastOp'.obj].Amount
               /\ trace'[k].member
               /\ heap'[lastOp'.obj].Amount = lastOp'.amount]_vars

\* an amount of 1 has been edited to 2 on a transaction entered before, and
\* the one event carries the difference 1
C21_Witness ==
  /\ lastOp.op = "SetAmount" /\ lastOp.amount = 2
  /\ \E k \in Updates(trace) :
       trace[k].topic = AmountTopic /\ trace[k].arg = 1 /\ trace[k].member
  /\ heap[lastOp.obj].Amount = 2

====
